---- MODULE Spec2Model ----
(***************************************************************************)
(* Model of app/processing.py, process_attendance: the attendance table    *)
(* df is a sequence of records (one per CSV row, in row order), and every  *)
(* block of the function is one action that rewrites the whole table.      *)
(*                                                                         *)
(* Units.  Times of day and durations are whole minutes (10:15 AM = 615,   *)
(* 9.5 hours = 570).  half_day, full_day, day_deduction and payable_day    *)
(* are counted in half days (0.5 = 1, 1.0 = 2).  A date is <<month, day>>  *)
(* of one year.  A missing value (NaN / NaT) is a sentinel of the column's *)
(* own type.                                                               *)
(***************************************************************************)
EXTENDS Integers, Sequences, FiniteSets, TLC

VARIABLES df, summary_df, stage

vars == <<df, summary_df, stage>>

(* ------------------------------------------------------------------ *)
(* Missing values                                                     *)
(* ------------------------------------------------------------------ *)
NaT == -1                 \* a missing time of day / timestamp
NaN == -1                 \* a missing count (counts are >= 0)
NaTDuration == 100000     \* a duration pd.to_timedelta could not parse
NaTDate == <<0, 0>>       \* a date pd.to_datetime could not parse
NaTPeriod == -1           \* the month of a missing date
NoEmployee == "nan"       \* an empty ALPHA EMP CODE cell

(* ------------------------------------------------------------------ *)
(* Program constants                                                  *)
(* ------------------------------------------------------------------ *)
SHIFT_START == 600        \* 10:00 AM
GRACE_LIMIT == 615        \* 10:15 AM
FLEX_LIMIT == 660         \* 11:00 AM
CYCLE_OFFSET_DAYS == 24
GRACE_ALLOWED == 4
FLEX_ALLOWED == 5
HOURS_FULL == 540         \* 9 hours
HOURS_SHORT == 480        \* 8 hours
AVG_HOURS_LIMIT == 570    \* 9.5 hours
AVG_RULE_HEAD == 5
HALF == 1                 \* 0.5 day
FULL == 2                 \* 1.0 day
DAY_MINUTES == 1440       \* pd.Timedelta(days=1)

(* ------------------------------------------------------------------ *)
(* Helpers on sequences                                               *)
(* ------------------------------------------------------------------ *)
RECURSIVE SumSeq(_)
SumSeq(s) == IF s = <<>> THEN 0 ELSE Head(s) + SumSeq(Tail(s))

Max2(a, b) == IF a >= b THEN a ELSE b

\* Series.clip(lo, hi)
Clip(x, lo, hi) == IF x < lo THEN lo ELSE IF x > hi THEN hi ELSE x

\* a comparison with a count that may be NaN: NaN > n is False
Gt(x, n) == x # NaN /\ x > n

(* ------------------------------------------------------------------ *)
(* Lines 38-43: attendance_status .astype(str).str.strip().str.upper() *)
(* ------------------------------------------------------------------ *)
StripUpper(s) ==
    CASE s \in {"P", " p", "p ", "p"} -> "P"
      [] s \in {"A", "a", " A"} -> "A"
      [] s \in {"WO", "wo", "wo "} -> "WO"
      [] OTHER -> s

(* ------------------------------------------------------------------ *)
(* Lines 45-47, 76: date, forward fill, month_cycle, month             *)
(* ------------------------------------------------------------------ *)
\* df.groupby("employee_id")["date"].ffill(): the most recent date at or
\* before row i among the rows of the same employee; the rows whose
\* employee_id is missing belong to no group and come out missing
FfillDate(t, i) ==
    IF t[i].employee_id = NoEmployee THEN NaTDate
    ELSE LET prior == {j \in 1..i : /\ t[j].employee_id = t[i].employee_id
                                    /\ t[j].date # NaTDate}
         IN IF prior = {} THEN NaTDate
            ELSE t[CHOOSE j \in prior : \A k \in prior : k <= j].date

\* (date - DateOffset(days=24)).dt.to_period('M'); months are numbered
\* through the year, 0 being December of the year before
MonthCycle(d) ==
    IF d = NaTDate THEN NaTPeriod
    ELSE IF d[2] > CYCLE_OFFSET_DAYS THEN d[1] ELSE d[1] - 1

\* date.dt.to_period("M")
Month(d) == IF d = NaTDate THEN NaTPeriod ELSE d[1]

(* ------------------------------------------------------------------ *)
(* Lines 49-74: punches and working hours                              *)
(* ------------------------------------------------------------------ *)
\* pd.to_datetime(date + " " + time): missing when either part is;
\* counted in minutes from the midnight that starts the row's date
Timestamp(d, tm) == IF d = NaTDate \/ tm = NaT THEN NaT ELSE tm

\* line 69: punch_out < punch_in moves punch_out to the next day
PunchOut(pin, pout) ==
    IF pin # NaT /\ pout # NaT /\ pout < pin THEN pout + DAY_MINUTES ELSE pout

\* lines 71-74: the punch difference, else the parsed DURATION, else 0
WorkingHours(pin, pout, dur) ==
    IF pin # NaT /\ pout # NaT THEN pout - pin
    ELSE IF dur # NaTDuration THEN dur
    ELSE 0

NormalizeRow(t, i) ==
    LET r == t[i]
        d == FfillDate(t, i)
        status == StripUpper(r.attendance_status)
        pin == Timestamp(d, r.punch_in_raw)
        pout == PunchOut(pin, Timestamp(d, r.punch_out_raw))
    IN [employee_id |-> r.employee_id,
        employee_name |-> r.employee_name,
        attendance_status |-> status,
        date |-> d,
        month_cycle |-> MonthCycle(d),
        month |-> Month(d),
        punch_in_time |-> r.punch_in_raw,
        punch_out_time |-> r.punch_out_raw,
        punch_in |-> pin,
        punch_out |-> pout,
        worked_duration |-> r.worked_duration,
        working_hours |-> WorkingHours(pin, pout, r.worked_duration),
        working_day |-> (status = "P")]

Normalize ==
    /\ stage = "loaded"
    /\ df' = [i \in 1..Len(df) |-> NormalizeRow(df, i)]
    /\ stage' = "normalized"
    /\ UNCHANGED summary_df

(* ------------------------------------------------------------------ *)
(* Lines 80-101: lateness flags and the running counts                 *)
(* ------------------------------------------------------------------ *)
\* `working_day and punch and SHIFT_START < punch <= GRACE_LIMIT`
is_within_grace(punch, working_day) ==
    working_day /\ SHIFT_START < punch /\ punch <= GRACE_LIMIT

is_late_beyond_grace(punch, working_day) ==
    working_day /\ punch > GRACE_LIMIT

is_flex_late(punch, working_day) ==
    working_day /\ GRACE_LIMIT < punch /\ punch <= FLEX_LIMIT

\* A missing punch_in_time is pd.NaT, which is truthy, and comparing a
\* datetime.time with it raises TypeError: the row-wise apply of lines
\* 93-95 raises on the first working-day row without a punch-in.
RaisesTypeError(t) ==
    \E i \in 1..Len(t) : t[i].working_day /\ t[i].punch_in_time = NaT

WithFlags(r) ==
    r @@ [within_grace |-> is_within_grace(r.punch_in_time, r.working_day),
          late_beyond_grace |-> is_late_beyond_grace(r.punch_in_time, r.working_day),
          flex_late |-> is_flex_late(r.punch_in_time, r.working_day)]

\* the rows groupby(["employee_id", "month_cycle"]) puts in no group
\* (dropna): a missing employee_id or a missing month_cycle
NoGroup(r) == r.employee_id = NoEmployee \/ r.month_cycle = NaTPeriod

\* GroupCumsum with the cycle left out of the group key
GroupCumsumByEmployee(t, i, col) ==
    IF NoGroup(t[i]) THEN NaN
    ELSE Cardinality({j \in 1..i : /\ t[j].employee_id = t[i].employee_id
                                   /\ t[j][col]})

\* groupby(["employee_id", "month_cycle"])[col].cumsum() at row i of the
\* flagged table t: NaN for a row in no group
GroupCumsum(t, i, col) ==
    IF NoGroup(t[i]) THEN NaN
    ELSE Cardinality({j \in 1..i : /\ t[j].employee_id = t[i].employee_id
                                   /\ t[j].month_cycle = t[i].month_cycle
                                   /\ t[j][col]})

grace_violation(grace_count) == Gt(grace_count, GRACE_ALLOWED)

flex_violation(flex_count) == Gt(flex_count, FLEX_ALLOWED)

WithCounts(t, i) ==
    LET gc == GroupCumsum(t, i, "within_grace")
        fc == GroupCumsum(t, i, "flex_late")
    IN t[i] @@ [grace_count |-> gc,
                grace_violation |-> grace_violation(gc),
                flex_count |-> fc,
                flex_violation |-> flex_violation(fc)]

\* lines 93-95: the three flag columns
Flags ==
    /\ stage = "normalized"
    /\ IF RaisesTypeError(df)
       THEN /\ stage' = "error"
            /\ UNCHANGED df
       ELSE /\ df' = [i \in 1..Len(df) |-> WithFlags(df[i])]
            /\ stage' = "flagged"
    /\ UNCHANGED summary_df

\* lines 97-101: the running counts and the violations
Counts ==
    /\ stage = "flagged"
    /\ df' = [i \in 1..Len(df) |-> WithCounts(df, i)]
    /\ stage' = "counted"
    /\ UNCHANGED summary_df

(* ------------------------------------------------------------------ *)
(* Lines 103-118: the deduction rules                                  *)
(* ------------------------------------------------------------------ *)
mask_full(r) ==
    /\ r.working_day
    /\ r.late_beyond_grace
    /\ Gt(r.grace_count, GRACE_ALLOWED)
    /\ r.working_hours < HOURS_FULL

\* mask_half without its grace_count condition
mask_half_any_count(r) ==
    /\ r.working_day
    /\ r.late_beyond_grace
    /\ (~r.flex_late \/ r.flex_violation)

mask_half(r) ==
    /\ r.working_day
    /\ r.late_beyond_grace
    /\ Gt(r.grace_count, GRACE_ALLOWED)
    /\ (~r.flex_late \/ r.flex_violation)

mask_full2(r) ==
    /\ r.working_day
    /\ ~r.late_beyond_grace
    /\ r.working_hours < HOURS_SHORT

mask_half2(r) ==
    /\ r.working_day
    /\ ~r.late_beyond_grace
    /\ r.working_hours >= HOURS_SHORT
    /\ r.working_hours < HOURS_FULL

\* lines 104, 107, 113
FullDay(r) == IF mask_full(r) \/ mask_full2(r) THEN FULL ELSE 0

\* lines 103, 110, 116
HalfDay(r) == IF mask_half(r) \/ mask_half2(r) THEN HALF ELSE 0

\* DayDeduction as the sum of the two columns
DayDeductionSum(half_day, full_day) == half_day + full_day

\* line 118: df[["half_day", "full_day"]].max(axis=1)
DayDeduction(half_day, full_day) == Max2(half_day, full_day)

WithDeductions(r) ==
    r @@ [half_day |-> HalfDay(r),
          full_day |-> FullDay(r),
          day_deduction |-> DayDeduction(HalfDay(r), FullDay(r))]

Rules ==
    /\ stage = "counted"
    /\ df' = [i \in 1..Len(df) |-> WithDeductions(df[i])]
    /\ stage' = "deducted"
    /\ UNCHANGED summary_df

(* ------------------------------------------------------------------ *)
(* Lines 120-127: the average-hours rule, per employee_id              *)
(* ------------------------------------------------------------------ *)
\* the rows of employee e that are working days
WorkingRows(t, e) ==
    SelectSeq(t, LAMBDA r : r.employee_id = e /\ r.working_day)

RECURSIVE SumHours(_)
SumHours(rows) ==
    IF rows = <<>> THEN 0 ELSE Head(rows).working_hours + SumHours(Tail(rows))

\* line 121-122: mean() > 9.5; the mean of no rows is NaN, and NaN > 9.5
\* is False
AvgExceeds(t, e) ==
    LET rows == WorkingRows(t, e)
    IN /\ Len(rows) > 0
       /\ SumHours(rows) > AVG_HOURS_LIMIT * Len(rows)

\* Allowed with head(6)
AllowedSix(t, e) ==
    {i \in 1..Len(t) :
        /\ t[i].employee_id = e
        /\ t[i].flex_late
        /\ Cardinality({j \in 1..i : t[j].employee_id = e /\ t[j].flex_late})
              <= AVG_RULE_HEAD + 1}

\* line 123: sub_df[sub_df['flex_late']].head(5).index
Allowed(t, e) ==
    {i \in 1..Len(t) :
        /\ t[i].employee_id = e
        /\ t[i].flex_late
        /\ Cardinality({j \in 1..i : t[j].employee_id = e /\ t[j].flex_late})
              <= AVG_RULE_HEAD}

\* lines 122-124 for the group of employee e: the rows it sets to 0
apply_average_rule(t, e) ==
    IF AvgExceeds(t, e) THEN Allowed(t, e) ELSE {}

\* the groups of groupby('employee_id'): a missing employee_id is in none
Employees(t) == {t[i].employee_id : i \in 1..Len(t)} \ {NoEmployee}

\* line 127: every group goes through apply_average_rule; the rows
\* without an employee_id are left out, and the result keeps the row
\* order and is renumbered
AverageRule ==
    /\ stage = "deducted"
    /\ LET zeroed == UNION {apply_average_rule(df, e) : e \in Employees(df)}
       IN df' = SelectSeq(
                   [i \in 1..Len(df) |->
                       IF i \in zeroed
                       THEN [df[i] EXCEPT !.day_deduction = 0, !.half_day = 0,
                                          !.full_day = 0]
                       ELSE df[i]],
                   LAMBDA r : r.employee_id # NoEmployee)
    /\ stage' = "averaged"
    /\ UNCHANGED summary_df

(* ------------------------------------------------------------------ *)
(* Lines 129-133: payable_day                                          *)
(* ------------------------------------------------------------------ *)
\* PayableDay with the full-day column in place of day_deduction
PayableDayFullOnly(r) ==
    LET raw == CASE r.attendance_status = "P" -> FULL - r.full_day
                 [] r.attendance_status = "A" -> 0
                 [] r.attendance_status = "WO" -> FULL
                 [] OTHER -> 0
    IN Clip(raw, 0, FULL)

PayableDay(r) ==
    LET raw == CASE r.attendance_status = "P" -> FULL - r.day_deduction
                 [] r.attendance_status = "A" -> 0
                 [] r.attendance_status = "WO" -> FULL
                 [] OTHER -> 0
    IN Clip(raw, 0, FULL)

Payable ==
    /\ stage = "averaged"
    /\ df' = [i \in 1..Len(df) |-> df[i] @@ [payable_day |-> PayableDay(df[i])]]
    /\ stage' = "payable"
    /\ UNCHANGED summary_df

(* ------------------------------------------------------------------ *)
(* Lines 144-159: deduction_reason                                     *)
(* ------------------------------------------------------------------ *)
Phrase(cond, text) == IF cond THEN <<text>> ELSE <<>>

\* get_reason without its elif branch
get_reason_no_elif(r) ==
    IF r.day_deduction > 0
    THEN Phrase(r.late_beyond_grace, "Late beyond grace")
         \o Phrase(r.flex_violation, "Flex violation")
         \o Phrase(r.working_hours < HOURS_SHORT, "Working hours < 8")
         \o Phrase(r.grace_violation, "Grace violation > 4")
    ELSE <<>>

\* the list `reasons`; ", ".join(reasons) is "" exactly for the empty list
get_reason(r) ==
    IF r.day_deduction > 0
    THEN Phrase(r.late_beyond_grace, "Late beyond grace")
         \o Phrase(r.flex_violation, "Flex violation")
         \o (IF r.working_hours < HOURS_SHORT
             THEN <<"Working hours < 8">>
             ELSE Phrase(HOURS_SHORT <= r.working_hours /\ r.working_hours < HOURS_FULL,
                         "Working hours between 8-9"))
         \o Phrase(r.grace_violation, "Grace violation > 4")
    ELSE <<>>

Reason ==
    /\ stage = "payable"
    /\ df' = [i \in 1..Len(df) |->
                 df[i] @@ [sr_no_fixed |-> i, deduction_reason |-> get_reason(df[i])]]
    /\ stage' = "reasoned"
    /\ UNCHANGED summary_df

(* ------------------------------------------------------------------ *)
(* Lines 165-193: the employee summary                                 *)
(* ------------------------------------------------------------------ *)
\* the sort order of the group keys: employee ids and names as strings
EmployeeOrder == <<"E1", "E2">>
NameOrder == <<"Asha", "Asha K", "Ravi">>

Rank(x, order) == CHOOSE i \in 1..Len(order) : order[i] = x

\* line 168: strftime('%d/%m/%Y'), the text "DD/MM/YYYY" as <<DD, MM, YYYY>>
FormatDate(d) == <<d[2], d[1], 2024>>

\* line 165
deduction_rows(t) == SelectSeq(t, LAMBDA r : r.day_deduction > 0)

GroupKey(r) == <<r.employee_id, r.employee_name, r.month>>

\* groupby(['employee_id', 'employee_name', 'month']) leaves out the rows
\* with a missing key (a missing date has no month)
GroupKeys(rows) ==
    {GroupKey(rows[i]) : i \in {j \in 1..Len(rows) : rows[j].month # NaTPeriod}}

KeyBefore(a, b) ==
    LET ea == Rank(a[1], EmployeeOrder)  eb == Rank(b[1], EmployeeOrder)
        na == Rank(a[2], NameOrder)      nb == Rank(b[2], NameOrder)
    IN \/ ea < eb
       \/ ea = eb /\ na < nb
       \/ ea = eb /\ na = nb /\ a[3] < b[3]

\* the group keys in sorted order (groupby sorts its keys)
RECURSIVE SortedKeys(_)
SortedKeys(keys) ==
    IF keys = {} THEN <<>>
    ELSE LET first == CHOOSE k \in keys : \A o \in keys \ {k} : KeyBefore(k, o)
         IN <<first>> \o SortedKeys(keys \ {first})

CountTrue(rows, Test(_)) == Len(SelectSeq(rows, Test))

\* line 173: ', '.join(x) over the group's rows in row order
JoinDates(rows) == [i \in 1..Len(rows) |-> FormatDate(rows[i].date)]

\* lines 172-181: one group's aggregates (.round(1) changes no multiple
\* of 0.5)
Aggregate(key, rows, n) ==
    [sr_no |-> n,
     employee_id |-> key[1],
     employee_name |-> key[2],
     month |-> key[3],
     deduction_dates |-> JoinDates(rows),
     full_day_deductions |-> SumSeq([i \in 1..Len(rows) |-> rows[i].full_day]),
     half_day_deductions |-> SumSeq([i \in 1..Len(rows) |-> rows[i].half_day]),
     total_deductions |-> SumSeq([i \in 1..Len(rows) |-> rows[i].day_deduction]),
     late_beyond_grace |-> CountTrue(rows, LAMBDA r : r.late_beyond_grace),
     working_hours_less8 |-> CountTrue(rows, LAMBDA r : r.working_hours < HOURS_SHORT),
     grace_violation |-> CountTrue(rows, LAMBDA r : r.grace_violation),
     flex_violation |-> CountTrue(rows, LAMBDA r : r.flex_violation)]

GroupRows(rows, key) == SelectSeq(rows, LAMBDA r : GroupKey(r) = key)

Summarize(t) ==
    LET rows == deduction_rows(t)
        keys == SortedKeys(GroupKeys(rows))
    IN [n \in 1..Len(keys) |-> Aggregate(keys[n], GroupRows(rows, keys[n]), n)]

Summary ==
    /\ stage = "reasoned"
    /\ summary_df' = Summarize(df)
    /\ stage' = "done"
    /\ UNCHANGED df

(* ------------------------------------------------------------------ *)
(* The input tables                                                   *)
(* ------------------------------------------------------------------ *)
\* one CSV row after read_csv and the renaming of lines 21-33; the punch
\* cells are given by the time of day extract_time reads from them
Row(e, n, d, st, pin, pout, dur) ==
    [employee_id |-> e, employee_name |-> n, date |-> d,
     attendance_status |-> st, punch_in_raw |-> pin, punch_out_raw |-> pout,
     worked_duration |-> dur]

\* a working day that starts at pin and lasts h minutes
Worked(e, n, d, pin, h) ==
    Row(e, n, d, "P", pin, (pin + h) % DAY_MINUTES, NaTDuration)

May03 == <<5, 3>>
May10 == <<5, 10>>
May27 == <<5, 27>>
Jun02 == <<6, 2>>

\* arrivals at the edges of the windows: 10:00 is on time, 10:15 is the
\* last minute of grace, 11:00 the last of flex, 11:01 is after flex
Arrive == [on_time |-> 600, in_grace |-> 615, in_flex |-> 660, after_flex |-> 661]

\* five arrivals within grace on 10 May, each of h minutes: the next late
\* arrival of the cycle finds grace_count > 4
GraceUsed(h) == [i \in 1..5 |-> Worked("E1", "Asha", May10, Arrive.in_grace, h)]

(* the rule tables: an optional used-up grace allowance, then up to      *)
(* MaxRowsRules rows of every arrival class, length of day and status   *)
MaxRowsRules == 2

RulesRows ==
    {Worked("E1", "Asha", May10, pin, h) :
        pin \in {Arrive.on_time, Arrive.in_grace, Arrive.in_flex, Arrive.after_flex},
        h \in {0, 479, 480, 540}}
    \cup {Row("E1", "Asha", May10, st, NaT, NaT, NaTDuration) :
            st \in {"A", "WO", "wo ", "HD"}}
    \cup {Worked(NoEmployee, "Asha", May10, Arrive.on_time, 479),
          Row("E1", "Asha", May10, " p", Arrive.after_flex, 1200, NaTDuration)}

RulesTable(t) ==
    \E k \in 1..MaxRowsRules : \E suf \in [1..k -> RulesRows] :
        \E pre \in {<<>>, GraceUsed(540), GraceUsed(720)} : t = pre \o suf

(* the hours tables: every combination of a present or missing date,   *)
(* punch-in, punch-out and DURATION                                     *)
MaxRowsHours == 2

HoursRows ==
    {Row("E1", "Asha", d, st, pin, pout, dur) :
        d \in {May10, NaTDate}, st \in {"P", "A"},
        pin \in {NaT, 1320}, pout \in {NaT, 360, 1380},
        dur \in {NaTDuration, -60, 510}}

HoursTable(t) == \E k \in 1..MaxRowsHours : t \in [1..k -> HoursRows]

(* the count tables: two employees, two cycles, a missing date          *)
MaxRowsCounts == 6

CountsRows ==
    {Worked("E1", "Asha", May10, Arrive.in_grace, 540),
     Worked("E1", "Asha", May10, Arrive.in_flex, 540),
     Worked("E1", "Asha", May27, Arrive.in_grace, 540),
     Worked("E2", "Ravi", May10, Arrive.in_grace, 540),
     Worked("E1", "Asha", NaTDate, Arrive.in_grace, 540)}

CountsTable(t) == \E k \in 1..MaxRowsCounts : t \in [1..k -> CountsRows]

(* the average-rule tables: a used-up grace allowance of 12-hour days,  *)
(* then up to MaxRowsFree rows: flex arrivals of the same cycle, of the *)
(* next cycle and of another employee, and a short day on time.  Four   *)
(* flex days and one short day bring the mean to 9.5 hours exactly      *)
MaxRowsFree == 6

FreeRows ==
    {Worked("E1", "Asha", May10, Arrive.in_flex, 495),
     Worked("E1", "Asha", May27, Arrive.in_flex, 495),
     Worked("E1", "Asha", May10, Arrive.on_time, 120),
     Worked("E2", "Ravi", May10, Arrive.in_flex, 495)}

AverageTable(t) ==
    \E n \in 0..MaxRowsFree : \E f \in [1..n -> FreeRows] :
        t = GraceUsed(720) \o f

(* the summary tables: deductions on several dates, in and out of date  *)
(* order, with forward-filled dates, in two months                      *)
MaxRowsSummary == 3

SummaryRows ==
    {Worked("E1", "Asha", May10, Arrive.on_time, 420),
     Worked("E1", "Asha", May03, Arrive.on_time, 510),
     Worked("E1", "Asha", NaTDate, Arrive.on_time, 420),
     Worked("E1", "Asha", May27, Arrive.on_time, 510),
     Worked("E1", "Asha", May10, Arrive.after_flex, 420),
     Worked("E1", "Asha K", Jun02, Arrive.on_time, 510),
     Worked("E2", "Ravi", Jun02, Arrive.on_time, 510)}

SummaryTable(t) ==
    \E k \in 1..MaxRowsSummary : \E suf \in [1..k -> SummaryRows] :
        \E pre \in {<<>>, GraceUsed(720)} : t = pre \o suf

(* ------------------------------------------------------------------ *)
(* The specifications                                                 *)
(* ------------------------------------------------------------------ *)
\* the state after read_csv: the table as loaded, nothing derived yet
Loaded ==
    /\ summary_df = <<>>
    /\ stage = "loaded"

Init == RulesTable(df) /\ Loaded
InitHours == HoursTable(df) /\ Loaded
InitCounts == CountsTable(df) /\ Loaded
InitAverage == AverageTable(df) /\ Loaded
InitSummary == SummaryTable(df) /\ Loaded

Next ==
    \/ Normalize
    \/ Flags
    \/ Counts
    \/ Rules
    \/ AverageRule
    \/ Payable
    \/ Reason
    \/ Summary

Spec == Init /\ [][Next]_vars
SpecHours == InitHours /\ [][Next]_vars
SpecCounts == InitCounts /\ [][Next]_vars
SpecAverage == InitAverage /\ [][Next]_vars
SpecSummary == InitSummary /\ [][Next]_vars

(* ------------------------------------------------------------------ *)
(* The stages at which a column exists                                 *)
(* ------------------------------------------------------------------ *)
HasHours == stage \in {"normalized", "flagged", "counted", "deducted", "averaged",
                       "payable", "reasoned", "done", "error"}
HasCounts == stage \in {"counted", "deducted", "averaged", "payable", "reasoned",
                        "done"}
HasDeductions == stage \in {"deducted", "averaged", "payable", "reasoned", "done"}
IsFinal == stage \in {"averaged", "payable", "reasoned", "done"}
HasPayable == stage \in {"payable", "reasoned", "done"}
HasReason == stage \in {"reasoned", "done"}

Rows == 1..Len(df)

(* ------------------------------------------------------------------ *)
(* C1: the average-hours override                                      *)
(* ------------------------------------------------------------------ *)
\* the working-day rows of employee e in table t, as positions
C1_WorkingDays(t, e) ==
    {i \in 1..Len(t) : t[i].employee_id = e /\ t[i].working_day}

RECURSIVE C1_Total(_, _)
C1_Total(t, rows) ==
    IF rows = {} THEN 0
    ELSE LET i == CHOOSE x \in rows : TRUE
         IN t[i].working_hours + C1_Total(t, rows \ {i})

\* the mean working_hours of e over its working days exceeds 9.5 hours
\* (19/2 hours of 60 minutes); no working day, no mean
C1_MeanAbove(t, e) ==
    LET days == C1_WorkingDays(t, e)
    IN days # {} /\ 2 * C1_Total(t, days) > 19 * 60 * Cardinality(days)

\* row i is one of the first five flex_late rows of its employee
C1_AmongFirstFive(t, i) ==
    /\ t[i].flex_late
    /\ Cardinality({j \in 1..i : /\ t[j].employee_id = t[i].employee_id
                                 /\ t[j].flex_late}) <= 5

\* C1: the step from the rules' table to the overridden one zeroes
\* half_day, full_day and day_deduction on exactly the first min(5, n)
\* flex_late rows of every employee whose mean working_hours over its
\* working days exceeds 9.5, and leaves the three columns of every other
\* row as rules 1-4 set them
C1_AverageOverride ==
    [][stage = "deducted" =>
         LET before == SelectSeq(df, LAMBDA r : r.employee_id # NoEmployee)
         IN /\ Len(df') = Len(before)
            /\ \A i \in 1..Len(before) :
                  IF C1_MeanAbove(before, before[i].employee_id)
                     /\ C1_AmongFirstFive(before, i)
                  THEN /\ df'[i].half_day = 0
                       /\ df'[i].full_day = 0
                       /\ df'[i].day_deduction = 0
                  ELSE /\ df'[i].half_day = before[i].half_day
                       /\ df'[i].full_day = before[i].full_day
                       /\ df'[i].day_deduction = before[i].day_deduction]_vars

\* the override has run on an employee with a mean above 9.5 hours and
\* more than five flex_late rows in rule 1: a row past the fifth keeps its
\* full day and an earlier one has lost it
C1_Witness ==
    /\ stage = "averaged"
    /\ \E i \in Rows :
          /\ C1_MeanAbove(df, df[i].employee_id)
          /\ df[i].flex_late /\ mask_full(df[i])
          /\ ~C1_AmongFirstFive(df, i)
          /\ df[i].day_deduction = FULL
          /\ \E j \in 1..i : /\ df[j].employee_id = df[i].employee_id
                             /\ df[j].flex_late /\ mask_full(df[j])
                             /\ df[j].day_deduction = 0

(* ------------------------------------------------------------------ *)
(* C2: rule 2 as the else of rule 1                                    *)
(* ------------------------------------------------------------------ *)
\* C2: a working-day row that is late beyond grace with grace_count > 4
\* and working_hours < 9 gets full_day = 1.0 and half_day = 0 from the
\* rules, and no row ever has full_day = 1.0 together with half_day = 0.5
C2_RuleTwoIsElse ==
    /\ stage = "deducted" =>
          \A i \in Rows :
             (/\ df[i].working_day
              /\ df[i].late_beyond_grace
              /\ Gt(df[i].grace_count, 4)
              /\ df[i].working_hours < 9 * 60)
             => df[i].full_day = FULL /\ df[i].half_day = 0
    /\ HasDeductions =>
          \A i \in Rows : ~(df[i].full_day = FULL /\ df[i].half_day = HALF)

(* ------------------------------------------------------------------ *)
(* C3: the ranges of the deduction columns                             *)
(* ------------------------------------------------------------------ *)
\* C3: after the rules and the override every row has half_day in
\* {0, 0.5}, full_day in {0, 1.0}, day_deduction in {0, 0.5, 1.0} and
\* day_deduction = max(half_day, full_day)
C3_DeductionRanges ==
    IsFinal =>
       \A i \in Rows :
          /\ df[i].half_day \in {0, HALF}
          /\ df[i].full_day \in {0, FULL}
          /\ df[i].day_deduction \in {0, HALF, FULL}
          /\ df[i].day_deduction =
                (IF df[i].half_day > df[i].full_day THEN df[i].half_day
                                                   ELSE df[i].full_day)

\* a finished table with a row that carries both a full and a half day
\* and a row that carries a half day alone
C3_Witness ==
    /\ stage = "done"
    /\ \E i \in Rows : df[i].full_day = FULL /\ df[i].half_day = HALF
    /\ \E i \in Rows : df[i].full_day = 0 /\ df[i].half_day = HALF
                       /\ df[i].day_deduction = HALF

(* ------------------------------------------------------------------ *)
(* C4: payable_day                                                     *)
(* ------------------------------------------------------------------ *)
\* C4: payable_day is 1.0 for WO, 0.0 for A, 1.0 - day_deduction clipped
\* to [0, 1] for P and 0.0 for any other status, so it lies in [0, 1]
C4_PayableByStatus ==
    HasPayable =>
       \A i \in Rows :
          LET st == df[i].attendance_status
              owed == FULL - df[i].day_deduction
          IN /\ st = "WO" => df[i].payable_day = FULL
             /\ st = "A" => df[i].payable_day = 0
             /\ st = "P" => df[i].payable_day =
                               (IF owed < 0 THEN 0 ELSE IF owed > FULL THEN FULL ELSE owed)
             /\ st \notin {"WO", "A", "P"} => df[i].payable_day = 0
             /\ 0 <= df[i].payable_day /\ df[i].payable_day <= FULL

\* a finished table with a present row paid half a day and a row of
\* another status paid nothing
C4_Witness ==
    /\ stage = "done"
    /\ \E i \in Rows : /\ df[i].attendance_status = "P"
                       /\ df[i].half_day = HALF /\ df[i].full_day = 0
                       /\ df[i].payable_day = HALF
    /\ \E i \in Rows : /\ df[i].attendance_status \notin {"WO", "A", "P"}
                       /\ df[i].payable_day = 0

(* ------------------------------------------------------------------ *)
(* C5: the running counts                                              *)
(* ------------------------------------------------------------------ *)
\* the rows at or before i of the same employee and cycle whose flag col
\* is set
C5_Earlier(i, col) ==
    {j \in 1..i : /\ df[j].employee_id = df[i].employee_id
                  /\ df[j].month_cycle = df[i].month_cycle
                  /\ df[j][col]}

C5_CountsAt(i) ==
    /\ df[i].grace_count = Cardinality(C5_Earlier(i, "within_grace"))
    /\ df[i].flex_count = Cardinality(C5_Earlier(i, "flex_late"))
    /\ df[i].grace_violation = (df[i].grace_count > 4)
    /\ df[i].flex_violation = (df[i].flex_count > 5)

\* C5 as stated: for every row, grace_count and flex_count are the
\* numbers of within_grace and flex_late rows of the same employee and
\* cycle at or before it, and the violations are count > 4 and count > 5
C5_CountsEveryRow == HasCounts => \A i \in Rows : C5_CountsAt(i)

\* C5 amended: the same for every row that has an employee_id and a date
\* (its own or a forward-filled one); a row without either has no count
\* and no violation
C5_CountsGroupedRows ==
    HasCounts =>
       \A i \in Rows :
          IF df[i].employee_id # NoEmployee /\ df[i].date # NaTDate
          THEN C5_CountsAt(i)
          ELSE /\ df[i].grace_count = NaN /\ df[i].flex_count = NaN
               /\ ~df[i].grace_violation /\ ~df[i].flex_violation

\* a finished table where an employee's grace_count has passed 4 in one
\* cycle and stands at 1 again on a later row, of the next cycle
C5_Witness ==
    /\ stage = "done"
    /\ \E i, j \in Rows :
          /\ i < j
          /\ df[i].employee_id = df[j].employee_id
          /\ df[i].month_cycle # NaTPeriod
          /\ df[j].month_cycle # NaTPeriod
          /\ df[i].month_cycle # df[j].month_cycle
          /\ df[i].grace_count = 5 /\ df[i].grace_violation
          /\ df[j].grace_count = 1 /\ ~df[j].grace_violation

(* ------------------------------------------------------------------ *)
(* C6: deduction_reason                                                *)
(* ------------------------------------------------------------------ *)
\* C6: deduction_reason is empty exactly for the rows with
\* day_deduction = 0
C6_ReasonIffDeduction ==
    HasReason =>
       \A i \in Rows : (df[i].deduction_reason = <<>>) <=> (df[i].day_deduction = 0)

\* a finished table with a half day of a row that was not late, with a
\* reason, and a row in rule 1 that the override has cleared, without one
C6_Witness ==
    /\ stage = "done"
    /\ \E i \in Rows : /\ df[i].day_deduction = HALF
                       /\ ~df[i].late_beyond_grace
                       /\ df[i].deduction_reason # <<>>
    /\ \E i \in Rows : /\ mask_full(df[i])
                       /\ df[i].day_deduction = 0
                       /\ df[i].deduction_reason = <<>>

(* ------------------------------------------------------------------ *)
(* C7: working_hours                                                   *)
(* ------------------------------------------------------------------ *)
\* C7: after normalization working_hours of every row is >= 0, whether
\* it comes from the punches, from DURATION or from the default
C7_HoursNonNegative == HasHours => \A i \in Rows : df[i].working_hours >= 0

(* ------------------------------------------------------------------ *)
(* C8 and C9: the employee summary                                     *)
(* ------------------------------------------------------------------ *)
\* C8: in every summary row the total deduction is the sum of the
\* full-day and half-day totals
C8_TotalIsSum ==
    stage = "done" =>
       \A n \in 1..Len(summary_df) :
          summary_df[n].total_deductions =
             summary_df[n].full_day_deductions + summary_df[n].half_day_deductions

\* the text <<DD, MM, YYYY>> a names an earlier date than b
C9_Earlier(a, b) ==
    \/ a[3] < b[3]
    \/ a[3] = b[3] /\ a[2] < b[2]
    \/ a[3] = b[3] /\ a[2] = b[2] /\ a[1] < b[1]

\* C9: in every summary row the deduction dates are the dates of the
\* group's deduction rows, each once, in ascending date order
C9_DatesSortedOnce ==
    stage = "done" =>
       \A n \in 1..Len(summary_df) :
          LET dates == summary_df[n].deduction_dates
          IN /\ \A a, b \in 1..Len(dates) : a < b => C9_Earlier(dates[a], dates[b])
             /\ {dates[a] : a \in 1..Len(dates)} =
                   {<<df[i].date[2], df[i].date[1], 2024>> :
                       i \in {j \in Rows :
                                /\ df[j].day_deduction > 0
                                /\ df[j].employee_id = summary_df[n].employee_id
                                /\ df[j].employee_name = summary_df[n].employee_name
                                /\ df[j].month = summary_df[n].month}}

(* ------------------------------------------------------------------ *)
(* C10: late beyond grace within the grace allowance                   *)
(* ------------------------------------------------------------------ *)
\* C10: a working-day row that is late beyond grace while its
\* grace_count is <= 4 gets no deduction from rules 1-4, whatever its
\* working_hours, and is paid the whole day
C10_LateWithinAllowance ==
    \A i \in Rows :
       (/\ HasDeductions
        /\ df[i].working_day
        /\ df[i].late_beyond_grace
        /\ df[i].grace_count # NaN
        /\ df[i].grace_count <= 4)
       => /\ df[i].half_day = 0
          /\ df[i].full_day = 0
          /\ df[i].day_deduction = 0
          /\ HasPayable => df[i].payable_day = FULL

\* a finished table with a working day that started after 11:00 with
\* grace_count <= 4, lasted no time at all, and is paid in full
C10_Witness ==
    /\ stage = "done"
    /\ \E i \in Rows : /\ df[i].working_day
                       /\ df[i].punch_in_time > FLEX_LIMIT
                       /\ df[i].grace_count <= 4
                       /\ df[i].working_hours = 0
                       /\ df[i].payable_day = FULL

====
